---------------------------- MODULE Spec2Model ----------------------------
(***************************************************************************)
(* A model of mac_changer.py: the command executor, the address helpers,   *)
(* the mutator, the backup store, the rotator and the command-line         *)
(* orchestrator.                                                           *)
(*                                                                         *)
(* Strings the program inspects character by character (addresses, the     *)
(* text typed at the prompt) are sequences of one-character strings, so    *)
(* that lower(), upper(), split(), join(), the validation pattern and      *)
(* int() are computed rather than assumed.  Python's None is the empty     *)
(* sequence <<>> and a present value v is <<v>>.                           *)
(*                                                                         *)
(* The two command families selected by IS_LINUX differ in the text of the *)
(* commands only; a command is modelled by what it asks for (down, address,*)
(* up) and by how the shell call ends.  The text scraping of get_mac and   *)
(* detect_interfaces is modelled by its results.  Writing the backup file  *)
(* is taken to succeed; reading it finds it missing, malformed or a        *)
(* mapping.                                                                *)
(***************************************************************************)
EXTENDS Integers, Sequences, FiniteSets, TLC

(***************************************************************************)
(* Bounds of the model.                                                    *)
(***************************************************************************)
\* rotation ticks explored before the loop is left sleeping
MaxTicks == 2
\* store operations explored by the store harness
MaxOps == 3

(***************************************************************************)
(* Optional values.                                                        *)
(***************************************************************************)
None == <<>>
Some(v) == <<v>>
IsNone(o) == o = <<>>
Val(o) == o[1]

Min(a, b) == IF a < b THEN a ELSE b

(***************************************************************************)
(* Character-level string functions of the Python runtime.                 *)
(***************************************************************************)
Digits == <<"0", "1", "2", "3", "4", "5", "6", "7", "8", "9">>
LowerHex == Digits \o <<"a", "b", "c", "d", "e", "f">>
UpperLetters == <<"A", "B", "C", "D", "E", "F", "G">>
LowerLetters == <<"a", "b", "c", "d", "e", "f", "g">>

Range(s) == {s[k] : k \in DOMAIN s}
IndexOf(s, c) == CHOOSE k \in DOMAIN s : s[k] = c

\* str.lower() on one character
LowerChar(c) ==
    IF c \in Range(UpperLetters) THEN LowerLetters[IndexOf(UpperLetters, c)] ELSE c
\* str.upper() on one character
UpperChar(c) ==
    IF c \in Range(LowerLetters) THEN UpperLetters[IndexOf(LowerLetters, c)] ELSE c
\* str.lower()
Lower(s) == [k \in DOMAIN s |-> LowerChar(s[k])]
\* str.upper()
Upper(s) == [k \in DOMAIN s |-> UpperChar(s[k])]

\* sep.join(parts)
RECURSIVE Join(_, _)
Join(parts, sep) ==
    IF Len(parts) = 0 THEN <<>>
    ELSE IF Len(parts) = 1 THEN parts[1]
    ELSE parts[1] \o <<sep>> \o Join(Tail(parts), sep)

\* s.split(sep) for a one-character separator
RECURSIVE Split(_, _)
Split(s, sep) ==
    IF sep \notin Range(s) THEN <<s>>
    ELSE LET k == CHOOSE i \in DOMAIN s :
                      s[i] = sep /\ \A j \in 1..(i - 1) : s[j] # sep
         IN <<SubSeq(s, 1, k - 1)>> \o Split(SubSeq(s, k + 1, Len(s)), sep)

\* seq[:n]
Take(s, n) == SubSeq(s, 1, Min(n, Len(s)))

\* f"{n:02x}" for 0 <= n <= 255
Hex2(n) == <<LowerHex[(n \div 16) + 1], LowerHex[(n % 16) + 1]>>

HexChars == Range(LowerHex) \cup {"A", "B", "C", "D", "E", "F"}

\* re.match(r"^([0-9A-Fa-f]{2}:){5}[0-9A-Fa-f]{2}$", s): six hex pairs joined
\* by colons; "$" also matches before one trailing newline
IsValidMac(s) ==
    /\ Len(s) \in {17, 18}
    /\ \A k \in 1..17 : IF k % 3 = 0 THEN s[k] = ":" ELSE s[k] \in HexChars
    /\ Len(s) = 18 => s[18] = "\n"

\* s.strip() of blanks
RECURSIVE Strip(_)
Strip(s) ==
    IF Len(s) = 0 THEN s
    ELSE IF s[1] = " " THEN Strip(Tail(s))
    ELSE IF s[Len(s)] = " " THEN Strip(SubSeq(s, 1, Len(s) - 1))
    ELSE s

RECURSIVE DigitsValue(_)
DigitsValue(s) ==
    IF Len(s) = 0 THEN 0
    ELSE 10 * DigitsValue(SubSeq(s, 1, Len(s) - 1)) + (IndexOf(Digits, s[Len(s)]) - 1)

\* int(text): Some(n), or None where Python raises ValueError
ParseInt(text) ==
    LET t == Strip(text)
        signed == Len(t) > 0 /\ t[1] \in {"-", "+"}
        body == IF signed THEN Tail(t) ELSE t
    IN IF Len(body) > 0 /\ \A k \in DOMAIN body : body[k] \in Range(Digits)
       THEN Some(IF signed /\ t[1] = "-" THEN 0 - DigitsValue(body) ELSE DigitsValue(body))
       ELSE None

(***************************************************************************)
(* Addresses and the vendor table.                                         *)
(***************************************************************************)
Mac(a, b, c, d, e, f) == Join(<<a, b, c, d, e, f>>, ":")

PrefixDell == Join(<<<<"0", "0">>, <<"1", "4">>, <<"2", "2">>>>, ":")
PrefixCisco == Join(<<<<"0", "0">>, <<"4", "0">>, <<"9", "6">>>>, ":")
PrefixPrivate == Join(<<<<"A", "C">>, <<"D", "E">>, <<"4", "8">>>>, ":")

VENDOR_PREFIXES ==
    (PrefixDell :> "Dell") @@ (PrefixCisco :> "Cisco") @@ (PrefixPrivate :> "Private")

\* get_vendor(mac)
get_vendor(mac) ==
    LET prefix == Join(Take(Split(Upper(mac), ":"), 3), ":")
    IN IF prefix \in DOMAIN VENDOR_PREFIXES THEN VENDOR_PREFIXES[prefix] ELSE "Unknown"

\* the values randint(0, 255) is drawn from in the model (0xab)
RandBytes == {171}

\* every value random_mac() can return
random_mac ==
    {Join(Split(prefix, ":") \o <<Hex2(x), Hex2(y), Hex2(z)>>, ":") :
        prefix \in DOMAIN VENDOR_PREFIXES, x \in RandBytes, y \in RandBytes, z \in RandBytes}


\* the comparison without lower(): a variant of SameMac
SameMac_exact(a, b) == a = b

\* a.lower() == b.lower()
SameMac(a, b) == Lower(a) = Lower(b)

\* the loop "while mac.lower() == current.lower(): mac = random_mac()": every
\* value the loop can end with, given the first candidate
different_from(first, cur) ==
    IF SameMac(first, cur) THEN {m \in random_mac : ~SameMac(m, cur)} ELSE {first}

\* Python truthiness of an optional string / optional integer
TruthyStr(o) == ~IsNone(o) /\ Len(Val(o)) > 0
TruthyInt(o) == ~IsNone(o) /\ Val(o) # 0

(***************************************************************************)
(* The host: interfaces, their addresses, and how a shell command ends.    *)
(***************************************************************************)
OsInterfaces == <<"eth0", "wlan0">>
Ifaces == Range(OsInterfaces)

\* eth0 starts with an address random_mac() can produce, up to case
MacEth0 == Mac(<<"a", "c">>, <<"d", "e">>, <<"4", "8">>, <<"a", "b">>, <<"a", "b">>, <<"a", "b">>)
MacWlan0 == Mac(<<"1", "1">>, <<"2", "2">>, <<"3", "3">>, <<"4", "4">>, <<"5", "5">>, <<"6", "6">>)
MacOld == Mac(<<"a", "a">>, <<"b", "b">>, <<"c", "c">>, <<"d", "d">>, <<"e", "e">>, <<"f", "f">>)
\* a manual address equal to eth0's up to case
MacSame == Upper(MacEth0)
MacOther == Mac(<<"0", "0">>, <<"1", "4">>, <<"2", "2">>, <<"a", "a">>, <<"b", "b">>, <<"c", "c">>)
\* five octets only: rejected by the validation
MacInvalid == Join(<<<<"0", "0">>, <<"1", "1">>, <<"2", "2">>, <<"3", "3">>, <<"4", "4">>>>, ":")

\* how one subprocess call can end: exit status 0, a non-zero exit status,
\* or the shell could not be started (OSError)
Outcomes == {"ok", "nonzero", "spawn_error"}

NoCall ==
    [by |-> "none", iface |-> "", mac |-> <<>>, cur |-> <<>>,
     issued |-> <<>>, outcomes |-> <<>>, ret |-> FALSE]

\* change_mac(interface, new_mac) when the k-th subprocess.call ends as outs[k]:
\* the commands handed to the shell, how each ended, and the value returned
change_mac(interface, new_mac, outs) ==
    LET cmds == << [op |-> "down", iface |-> interface, mac |-> <<>>],
                   [op |-> "address", iface |-> interface, mac |-> new_mac],
                   [op |-> "up", iface |-> interface, mac |-> <<>>] >>
        raised == {k \in 1..3 : outs[k] = "spawn_error"}
        n == IF raised = {} THEN 3 ELSE CHOOSE k \in raised : \A j \in raised : k <= j
    IN [iface |-> interface, mac |-> new_mac,
        issued |-> SubSeq(cmds, 1, n), outcomes |-> SubSeq(outs, 1, n),
        ret |-> raised = {}]

\* the host after the commands of one change_mac call: the address is set
\* when the "address" command ran and exited 0; the host shows it in lower case
os_after(os, call) ==
    IF Len(call.outcomes) >= 2 /\ call.outcomes[2] = "ok"
    THEN [os EXCEPT ![call.iface] = Lower(call.mac)]
    ELSE os

\* every value get_mac(interface) can return: the address the host shows, or
\* None when the command fails or its output has no address
get_mac(os, interface) == {None, Some(os[interface])}

\* every value detect_interfaces() can return
detect_interfaces == {<<>>, OsInterfaces}

(***************************************************************************)
(* The backup file: missing, not parseable as JSON, or a mapping.          *)
(***************************************************************************)
EmptyMap == [i \in {} |-> None]
FileMissing == [state |-> "missing", data |-> EmptyMap]
FileCorrupt == [state |-> "corrupt", data |-> EmptyMap]
FileOf(d) == [state |-> "ok", data |-> d]

\* a load that never reads the file: a variant of backup_load
backup_load_empty(f) == Some(EmptyMap)

\* lines 65-68 of backup_mac: the mapping loaded, None when json.load raises
backup_load(f) ==
    IF f.state = "missing" THEN Some(EmptyMap)
    ELSE IF f.state = "corrupt" THEN None
    ELSE Some(f.data)

\* a write that keeps only the new record: a variant of backup_mac_write
backup_mac_write_fresh(data, interface, mac, ts) ==
    interface :> [original_mac |-> mac, timestamp |-> ts]

\* line 69 of backup_mac: data[interface] = {...}
backup_mac_write(data, interface, mac, ts) ==
    (interface :> [original_mac |-> mac, timestamp |-> ts]) @@ data

\* backup_mac(interface, mac) at time ts: the file afterwards and the message
backup_mac(f, interface, mac, ts) ==
    LET loaded == backup_load(f)
    IN IF IsNone(loaded)
       THEN [file |-> f, msg |-> "backup_failed"]
       ELSE [file |-> FileOf(backup_mac_write(Val(loaded), interface, mac, ts)),
             msg |-> "backed_up"]

\* restore_mac(interface): the address handed to change_mac (None when
\* change_mac is not called) and the message
restore_mac(f, interface) ==
    IF f.state # "ok" THEN [mac |-> None, msg |-> "restore_failed"]
    ELSE IF interface \in DOMAIN f.data
         THEN [mac |-> Some(f.data[interface].original_mac), msg |-> "restored"]
         ELSE [mac |-> None, msg |-> "no_backup"]

(***************************************************************************)
(* State.                                                                  *)
(*   file, osMac, clock     the backup file, the host's addresses, now()   *)
(*   lastCall               the latest change_mac call (NoCall: none yet)  *)
(*   out                    the last message printed                       *)
(*   args .. rot_current    one run of cli(): its arguments, position and  *)
(*                          locals; whether the default action was taken,  *)
(*                          the branch dispatched to, the rotation ticks   *)
(*                          done, the writes of the backup file, the file  *)
(*                          as the run found it, the command line as       *)
(*                          given, and rotate_mac's local "current"        *)
(*   lastOp, nOps           the store harness: the latest store operation  *)
(*   asked, saved           per interface, the address of the latest       *)
(*                          backup_mac call and of the latest one that     *)
(*                          reported success                               *)
(*   rpc .. lastWriter      two concurrent backups of the shared file:     *)
(*                          position, local "data", interface and address  *)
(*                          of each process, and who wrote last            *)
(***************************************************************************)
VARIABLES file, osMac, clock, lastCall, out,
          args, pc, interface, interfaces, current, vendor,
          defaulted, branch, tick, nWrites, file0, argv, rot_current,
          lastOp, nOps, asked, saved,
          rpc, rdata, rjob, lastWriter

hostVars == <<file, osMac, clock, lastCall, out>>
cliVars == <<args, pc, interface, interfaces, current, vendor,
             defaulted, branch, tick, nWrites, file0, argv, rot_current>>
storeVars == <<lastOp, nOps, asked, saved>>
raceVars == <<rpc, rdata, rjob, lastWriter>>
vars == <<hostVars, cliVars, storeVars, raceVars>>

OsInit == [i \in Ifaces |-> IF i = "eth0" THEN MacEth0 ELSE MacWlan0]

\* the backup file as a run can find it
InitFiles ==
    {FileMissing, FileCorrupt,
     FileOf("eth0" :> [original_mac |-> MacOld, timestamp |-> 0])}

NoOp ==
    [op |-> "none", iface |-> "", mac |-> <<>>, before |-> FileMissing, msg |-> "",
     call |-> NoCall]

HostInit ==
    /\ file \in InitFiles
    /\ osMac = OsInit
    /\ clock = 1
    /\ lastCall = NoCall
    /\ out = ""

NoArgs ==
    [interface |-> None, mac |-> None, restore |-> FALSE, random |-> FALSE,
     interval |-> None]

CliIdle ==
    /\ args = NoArgs
    /\ pc = "idle"
    /\ interface = ""
    /\ interfaces = <<>>
    /\ current = None
    /\ vendor = ""
    /\ defaulted = FALSE
    /\ branch = ""
    /\ tick = 0
    /\ nWrites = 0
    /\ file0 = file
    /\ argv = NoArgs
    /\ rot_current = None

StoreIdle ==
    /\ lastOp = NoOp
    /\ nOps = 0
    /\ asked = [i \in Ifaces |-> None]
    /\ saved = [i \in Ifaces |-> None]

Procs == {1, 2}
RaceIdle ==
    /\ rpc = [p \in Procs |-> "idle"]
    /\ rdata = [p \in Procs |-> EmptyMap]
    /\ rjob = [p \in Procs |-> [iface |-> "", mac |-> <<>>]]
    /\ lastWriter = 0

(***************************************************************************)
(* cli(): one run of the tool.                                             *)
(***************************************************************************)
\* the command lines explored
ArgSets ==
    [interface : {None, Some("eth0")},
     mac : {None, Some(<<>>), Some(MacInvalid), Some(MacSame), Some(MacOther)},
     restore : BOOLEAN,
     random : BOOLEAN,
     interval : {None, Some(0), Some(0 - 1), Some(5)}]

\* what the user can type at the "Enter choice" prompt
Typed == {<<"x">>, <<"0">>, <<"1">>, <<" ", "2">>, <<"3">>, <<"-", "1">>, <<>>}

Init ==
    /\ HostInit
    /\ args \in ArgSets
    /\ pc = "parse"
    /\ interface = ""
    /\ interfaces = <<>>
    /\ current = None
    /\ vendor = ""
    /\ defaulted = FALSE
    /\ branch = ""
    /\ tick = 0
    /\ nWrites = 0
    /\ file0 = file
    /\ argv = args
    /\ rot_current = None
    /\ StoreIdle
    /\ RaceIdle

\* lines 124-127: no operation specified
CliDefault ==
    /\ pc = "parse"
    /\ IF ~(TruthyStr(args.mac) \/ args.random \/ args.restore \/ TruthyInt(args.interval))
       THEN /\ out' = "default_random"
            /\ defaulted' = TRUE
            /\ args' = [args EXCEPT !.random = TRUE]
       ELSE UNCHANGED <<out, defaulted, args>>
    /\ pc' = "validate"
    /\ UNCHANGED <<file, osMac, clock, lastCall,
                   interface, interfaces, current, vendor, branch, tick, nWrites, file0, argv>>
    /\ UNCHANGED <<rot_current, storeVars, raceVars>>

\* the validation without its "return": a variant of CliValidate
CliValidate_NoReturn ==
    /\ pc = "validate"
    /\ IF TruthyStr(args.mac) /\ ~IsValidMac(Val(args.mac))
       THEN out' = "invalid_mac"
       ELSE out' = out
    /\ pc' = "choose"
    /\ UNCHANGED <<file, osMac, clock, lastCall,
                   args, interface, interfaces, current, vendor,
                   defaulted, branch, tick, nWrites, file0, argv>>
    /\ UNCHANGED <<rot_current, storeVars, raceVars>>

\* lines 129-133: validate the MAC format
CliValidate ==
    /\ pc = "validate"
    /\ IF TruthyStr(args.mac) /\ ~IsValidMac(Val(args.mac))
       THEN out' = "invalid_mac" /\ pc' = "done"
       ELSE out' = out /\ pc' = "choose"
    /\ UNCHANGED <<file, osMac, clock, lastCall,
                   args, interface, interfaces, current, vendor,
                   defaulted, branch, tick, nWrites, file0, argv>>
    /\ UNCHANGED <<rot_current, storeVars, raceVars>>

\* lines 135-144: take the interface given, or detect and list the interfaces
CliChoose ==
    /\ pc = "choose"
    /\ IF TruthyStr(args.interface)
       THEN /\ interface' = Val(args.interface)
            /\ pc' = "getmac"
            /\ UNCHANGED <<interfaces, out>>
       ELSE \E found \in detect_interfaces :
               /\ interfaces' = found
               /\ interface' = interface
               /\ IF Len(found) = 0
                  THEN out' = "no_interfaces" /\ pc' = "done"
                  ELSE out' = "select_interface" /\ pc' = "prompt"
    /\ UNCHANGED <<file, osMac, clock, lastCall,
                   args, current, vendor, defaulted, branch, tick, nWrites, file0, argv>>
    /\ UNCHANGED <<rot_current, storeVars, raceVars>>

\* lines 145-154: one round of the prompt
CliPrompt ==
    /\ pc = "prompt"
    /\ \E text \in Typed :
          LET choice_idx == ParseInt(text)
          IN IF IsNone(choice_idx)
             THEN /\ out' = "invalid_input"
                  /\ UNCHANGED <<interface, pc>>
             ELSE IF 1 <= Val(choice_idx) /\ Val(choice_idx) <= Len(interfaces)
                  THEN /\ interface' = interfaces[Val(choice_idx)]
                       /\ pc' = "getmac"
                       /\ out' = out
                  ELSE /\ out' = "out_of_range"
                       /\ UNCHANGED <<interface, pc>>
    /\ UNCHANGED <<file, osMac, clock, lastCall,
                   args, interfaces, current, vendor, defaulted, branch, tick, nWrites, file0, argv>>
    /\ UNCHANGED <<rot_current, storeVars, raceVars>>

\* lines 156-163: read the current address
CliGetMac ==
    /\ pc = "getmac"
    /\ \E got \in get_mac(osMac, interface) :
          /\ current' = got
          /\ IF ~TruthyStr(got)
             THEN out' = "could_not_fetch" /\ pc' = "done"
             ELSE out' = "current_mac" /\ pc' = "dispatch"
    /\ UNCHANGED <<file, osMac, clock, lastCall,
                   args, interface, interfaces, vendor, defaulted, branch, tick, nWrites, file0, argv>>
    /\ UNCHANGED <<rot_current, storeVars, raceVars>>

\* lines 165-168: restore and return
CliRestore ==
    /\ pc = "dispatch"
    /\ args.restore
    /\ LET r == restore_mac(file, interface)
       IN /\ out' = r.msg
          /\ IF IsNone(r.mac)
             THEN UNCHANGED <<osMac, lastCall>>
             ELSE \E outs \in [1..3 -> Outcomes] :
                     LET call == change_mac(interface, Val(r.mac), outs)
                     IN /\ lastCall' = [by |-> "restore", cur |-> current] @@ call
                        /\ osMac' = os_after(osMac, call)
    /\ branch' = "restore"
    /\ pc' = "done"
    /\ UNCHANGED <<file, clock, args, interface, interfaces, current, vendor,
                   defaulted, tick, nWrites, file0, argv>>
    /\ UNCHANGED <<rot_current, storeVars, raceVars>>

\* lines 170-171: back up before the change
CliBackup ==
    /\ pc = "dispatch"
    /\ ~args.restore
    /\ LET b == backup_mac(file, interface, Val(current), clock)
       IN /\ file' = b.file
          /\ out' = b.msg
          /\ nWrites' = IF b.msg = "backed_up" THEN nWrites + 1 ELSE nWrites
    /\ clock' = clock + 1
    /\ pc' = "branch"
    /\ UNCHANGED <<osMac, lastCall,
                   args, interface, interfaces, current, vendor,
                   defaulted, branch, tick, file0, argv>>
    /\ UNCHANGED <<rot_current, storeVars, raceVars>>

\* lines 173-175 and 91: enter rotate_mac
CliRotate ==
    /\ pc = "branch"
    /\ TruthyInt(args.interval)
    /\ out' = "rotating"
    /\ branch' = "rotate"
    /\ pc' = "rot_tick"
    /\ UNCHANGED <<file, osMac, clock, lastCall,
                   args, interface, interfaces, current, vendor,
                   defaulted, tick, nWrites, file0, argv>>
    /\ UNCHANGED <<rot_current, storeVars, raceVars>>

\* lines 178-188: the manual or random one-shot change
CliOneShot ==
    /\ pc = "branch"
    /\ ~TruthyInt(args.interval)
    /\ \E first \in (IF TruthyStr(args.mac) THEN {Val(args.mac)} ELSE random_mac) :
       \E new_mac \in different_from(first, Val(current)) :
       \E outs \in [1..3 -> Outcomes] :
          LET call == change_mac(interface, new_mac, outs)
          IN /\ lastCall' = [by |-> "oneshot", cur |-> current] @@ call
             /\ osMac' = os_after(osMac, call)
             /\ IF call.ret
                THEN \E updated \in get_mac(osMac', interface) :
                        IF IsNone(updated)
                        THEN \* get_vendor(None): AttributeError, not caught
                             /\ out' = "AttributeError"
                             /\ pc' = "crashed"
                             /\ vendor' = vendor
                        ELSE /\ out' = "changed"
                             /\ pc' = "done"
                             /\ vendor' = get_vendor(Val(updated))
                ELSE /\ out' = "change_failed"
                     /\ pc' = "done"
                     /\ vendor' = vendor
    /\ branch' = "oneshot"
    /\ UNCHANGED <<file, clock, args, interface, interfaces, current,
                   defaulted, tick, nWrites, file0, argv>>
    /\ UNCHANGED <<rot_current, storeVars, raceVars>>

(***************************************************************************)
(* rotate_mac(interface, interval).                                        *)
(***************************************************************************)
\* lines 94-99: one pass of the loop body up to the sleep
RotTick ==
    /\ pc = "rot_tick"
    /\ tick < MaxTicks
    /\ \E got \in get_mac(osMac, interface) :
          /\ rot_current' = got
          /\ IF IsNone(got)
             THEN \* current.lower() on None: AttributeError, not caught
                  /\ out' = "AttributeError"
                  /\ pc' = "crashed"
                  /\ UNCHANGED <<osMac, lastCall, tick>>
             ELSE \E first \in random_mac :
                  \E mac \in different_from(first, Val(got)) :
                  \E outs \in [1..3 -> Outcomes] :
                     LET call == change_mac(interface, mac, outs)
                     IN /\ lastCall' = [by |-> "rotate", cur |-> got] @@ call
                        /\ osMac' = os_after(osMac, call)
                        /\ out' = "rotated"
                        /\ tick' = tick + 1
                        /\ pc' = "rot_sleep"
    /\ UNCHANGED <<file, clock, args, interface, interfaces, current, vendor,
                   defaulted, branch, nWrites, file0, argv>>
    /\ UNCHANGED <<storeVars, raceVars>>

\* line 100: time.sleep(interval); a negative interval raises ValueError
RotSleep ==
    /\ pc = "rot_sleep"
    /\ IF Val(args.interval) < 0
       THEN out' = "ValueError" /\ pc' = "crashed"
       ELSE out' = out /\ pc' = "rot_tick"
    /\ UNCHANGED <<file, osMac, clock, lastCall,
                   args, interface, interfaces, current, vendor,
                   defaulted, branch, tick, nWrites, file0, argv>>
    /\ UNCHANGED <<rot_current, storeVars, raceVars>>

\* lines 101-102: KeyboardInterrupt inside the loop (anywhere else it ends
\* the process where it stands, which no step of the model follows)
RotInterrupt ==
    /\ pc \in {"rot_tick", "rot_sleep"}
    /\ out' = "stopped"
    /\ pc' = "done"
    /\ UNCHANGED <<file, osMac, clock, lastCall,
                   args, interface, interfaces, current, vendor,
                   defaulted, branch, tick, nWrites, file0, argv>>
    /\ UNCHANGED <<rot_current, storeVars, raceVars>>

Next ==
    \/ CliDefault
    \/ CliValidate
    \/ CliChoose
    \/ CliPrompt
    \/ CliGetMac
    \/ CliRestore
    \/ CliBackup
    \/ CliRotate
    \/ CliOneShot
    \/ RotTick
    \/ RotSleep
    \/ RotInterrupt

Spec == Init /\ [][Next]_vars

(***************************************************************************)
(* The store harness: backup_mac and restore_mac called in any order by    *)
(* one process, on any interface, with any address.                        *)
(***************************************************************************)
StoreMacs == {MacEth0, MacOther}

InitStore ==
    /\ HostInit
    /\ CliIdle
    /\ StoreIdle
    /\ RaceIdle

\* one call backup_mac(i, m)
StoreBackup ==
    /\ nOps < MaxOps
    /\ \E i \in Ifaces, m \in StoreMacs :
          LET b == backup_mac(file, i, m, clock)
          IN /\ file' = b.file
             /\ out' = b.msg
             /\ lastOp' = [op |-> "backup", iface |-> i, mac |-> m,
                           before |-> file, msg |-> b.msg, call |-> NoCall]
             /\ asked' = [asked EXCEPT ![i] = Some(m)]
             /\ saved' = IF b.msg = "backed_up"
                         THEN [saved EXCEPT ![i] = Some(m)] ELSE saved
    /\ clock' = clock + 1
    /\ nOps' = nOps + 1
    /\ UNCHANGED <<osMac, lastCall, cliVars, raceVars>>

\* one call restore_mac(i)
StoreRestore ==
    /\ nOps < MaxOps
    /\ \E i \in Ifaces :
          LET r == restore_mac(file, i)
          IN /\ out' = r.msg
             /\ IF IsNone(r.mac)
                THEN /\ lastOp' = [op |-> "restore", iface |-> i, mac |-> <<>>,
                                   before |-> file, msg |-> r.msg, call |-> NoCall]
                     /\ UNCHANGED <<lastCall, osMac>>
                ELSE \E outs \in [1..3 -> Outcomes] :
                        LET call == [by |-> "restore", cur |-> None]
                                        @@ change_mac(i, Val(r.mac), outs)
                        IN /\ lastOp' = [op |-> "restore", iface |-> i, mac |-> <<>>,
                                         before |-> file, msg |-> r.msg, call |-> call]
                           /\ lastCall' = call
                           /\ osMac' = os_after(osMac, call)
    /\ nOps' = nOps + 1
    /\ UNCHANGED <<file, clock, asked, saved, cliVars, raceVars>>

NextStore == StoreBackup \/ StoreRestore

SpecStore == InitStore /\ [][NextStore]_vars

(***************************************************************************)
(* Two runs of the tool at once, each in backup_mac on the shared file.    *)
(* Process p backs up rjob[p].iface; its steps are the load (lines 65-68), *)
(* open(..., "w"), which empties the file (lines 69-70), and json.dump     *)
(* (lines 71-72).                                                          *)
(***************************************************************************)

InitRace ==
    /\ HostInit
    /\ CliIdle
    /\ StoreIdle
    /\ rpc = [p \in Procs |-> "load"]
    /\ rdata = [p \in Procs |-> EmptyMap]
    /\ rjob \in [Procs -> [iface : Ifaces, mac : StoreMacs]]
    /\ lastWriter = 0

\* lines 65-68: load the mapping, or fail
RaceLoad(p) ==
    /\ rpc[p] = "load"
    /\ LET loaded == backup_load(file)
       IN IF IsNone(loaded)
          THEN /\ rpc' = [rpc EXCEPT ![p] = "failed"]
               /\ out' = "backup_failed"
               /\ rdata' = rdata
          ELSE /\ rpc' = [rpc EXCEPT ![p] = "open"]
               /\ rdata' = [rdata EXCEPT ![p] = Val(loaded)]
               /\ out' = out
    /\ UNCHANGED <<file, osMac, clock, lastCall, rjob, lastWriter, cliVars, storeVars>>

\* lines 69-70: set the record and open the file for writing, which empties it
RaceOpen(p) ==
    /\ rpc[p] = "open"
    /\ rdata' = [rdata EXCEPT
                   ![p] = backup_mac_write(rdata[p], rjob[p].iface, rjob[p].mac, clock)]
    /\ clock' = clock + 1
    /\ file' = FileCorrupt
    /\ rpc' = [rpc EXCEPT ![p] = "dump"]
    /\ UNCHANGED <<osMac, lastCall, out, rjob, lastWriter, cliVars, storeVars>>

\* lines 71-72: write the whole mapping and report
RaceDump(p) ==
    /\ rpc[p] = "dump"
    /\ file' = FileOf(rdata[p])
    /\ out' = "backed_up"
    /\ lastWriter' = p
    /\ rpc' = [rpc EXCEPT ![p] = "done"]
    /\ UNCHANGED <<osMac, clock, lastCall, rdata, rjob, cliVars, storeVars>>

NextRace == \E p \in Procs : RaceLoad(p) \/ RaceOpen(p) \/ RaceDump(p)

SpecRace == InitRace /\ [][NextRace]_vars

(***************************************************************************)
(* Properties.                                                             *)
(***************************************************************************)
StepNames == <<"down", "address", "up">>

\* C1: every change_mac call hands "down", "set address new_mac", "up" to the
\* shell in that order, and a step that does not end with exit status 0 (it
\* could not be spawned, or it exited non-zero) is the last one issued and
\* makes change_mac return failure.
C1_FailedStepAborts ==
    lastCall.by # "none" =>
        /\ \A k \in DOMAIN lastCall.issued :
              /\ lastCall.issued[k].op = StepNames[k]
              /\ lastCall.issued[k].iface = lastCall.iface
              /\ k = 2 => lastCall.issued[k].mac = lastCall.mac
        /\ \A k \in DOMAIN lastCall.outcomes :
              lastCall.outcomes[k] # "ok" =>
                  Len(lastCall.issued) = k /\ ~lastCall.ret

\* the record the store held for interface i before the latest operation
HadRecord(i) == lastOp.before.state = "ok" /\ i \in DOMAIN lastOp.before.data

\* C2: restore_mac(i) after backup_mac(i, a), with no later backup of i, calls
\* change_mac(i, a); restore_mac(i) on a store without a record for i issues
\* no command and reports "no backup found".
C2_BackupRoundTrip ==
    lastOp.op = "restore" =>
        /\ ~IsNone(asked[lastOp.iface]) =>
              /\ lastOp.call.by = "restore"
              /\ lastOp.call.iface = lastOp.iface
              /\ lastOp.call.mac = Val(asked[lastOp.iface])
        /\ ~HadRecord(lastOp.iface) =>
              lastOp.call = NoCall /\ lastOp.msg = "no_backup"

\* nothing was changed by this run: no change_mac call, the host's addresses
\* and the backup file as found
Untouched ==
    /\ lastCall = NoCall
    /\ osMac = OsInit
    /\ file = file0
    /\ nWrites = 0

BeforeGetMac == {"parse", "validate", "choose", "prompt", "getmac"}

\* C3: a run given an address that fails the validation, a run that detects
\* no interface, and a run whose start-up read of the address fails, issue no
\* command and leave the backup file as found, whatever the other flags.
C3_AbortedRunsTouchNothing ==
    /\ (TruthyStr(argv.mac) /\ ~IsValidMac(Val(argv.mac))) => Untouched
    /\ (pc \notin {"parse", "validate", "choose"} /\ ~TruthyStr(argv.interface)
            /\ Len(interfaces) = 0) => Untouched
    /\ (pc \notin BeforeGetMac /\ ~TruthyStr(current)) => Untouched

\* C3 witness: a run given a valid address, restore, random and an interval
\* has ended because the start-up read of the address failed
C3_Witness ==
    /\ pc = "done"
    /\ out = "could_not_fetch"
    /\ argv.restore /\ argv.random /\ TruthyInt(argv.interval)
    /\ TruthyStr(argv.mac)

\* C4: a restore run never writes the backup file; any other run that gets to
\* change an address has written it exactly once before, with the address
\* read at start-up; no run writes it twice.
C4_BackupOnceBeforeMutation ==
    /\ argv.restore => (nWrites = 0 /\ file = file0)
    /\ nWrites <= 1
    /\ pc \in {"branch", "rot_tick", "rot_sleep"} => nWrites = 1
    /\ lastCall.by \in {"oneshot", "rotate"} =>
          /\ nWrites = 1
          /\ file.state = "ok"
          /\ interface \in DOMAIN file.data
          /\ file.data[interface].original_mac = Val(current)

\* C5: on a missing or corrupt backup file backup_mac starts from the empty
\* mapping and writes the new record, and restore_mac reports not found or
\* failure without calling change_mac.
C5_DegradeOnBadFile ==
    lastOp.before.state \in {"missing", "corrupt"} =>
        /\ lastOp.op = "backup" =>
              /\ lastOp.msg = "backed_up"
              /\ file.state = "ok"
              /\ DOMAIN file.data = {lastOp.iface}
              /\ file.data[lastOp.iface].original_mac = lastOp.mac
        /\ lastOp.op = "restore" =>
              /\ lastOp.msg \in {"no_backup", "restore_failed"}
              /\ lastOp.call = NoCall

\* C6: after successful backups the file holds, for every interface backed
\* up, the address of its latest successful backup; a successful backup of i
\* adds or replaces the record of i alone.
C6_OneRecordPerInterface ==
    /\ \A i \in Ifaces :
          ~IsNone(saved[i]) =>
              /\ file.state = "ok"
              /\ i \in DOMAIN file.data
              /\ file.data[i].original_mac = Val(saved[i])
    /\ (lastOp.op = "backup" /\ lastOp.msg = "backed_up") =>
          /\ DOMAIN file.data = DOMAIN lastOp.before.data \cup {lastOp.iface}
          /\ \A j \in DOMAIN lastOp.before.data \ {lastOp.iface} :
                file.data[j] = lastOp.before.data[j]

\* C6 witness: a successful backup has replaced a record of its interface
\* that held another address, next to the record of another interface
C6_Witness ==
    /\ lastOp.op = "backup"
    /\ lastOp.msg = "backed_up"
    /\ HadRecord(lastOp.iface)
    /\ lastOp.before.data[lastOp.iface].original_mac # lastOp.mac
    /\ \E j \in DOMAIN lastOp.before.data : j # lastOp.iface
    /\ \E i \in Ifaces : ~IsNone(saved[i]) /\ i # lastOp.iface

\* C7: the address a one-shot change or a rotation tick hands to change_mac
\* differs from the current address it was compared with, whatever the case
\* of the letters.
C7_AppliedDiffersFromCurrent ==
    lastCall.by \in {"oneshot", "rotate"} =>
        Lower(lastCall.mac) # Lower(Val(lastCall.cur))

\* C7 witness: a tick has applied an address while the host showed one that
\* random_mac() can return in another case of the letters, so that a
\* candidate had to be drawn again
C7_Witness ==
    /\ lastCall.by = "rotate"
    /\ \E m \in random_mac :
          m # Val(lastCall.cur) /\ Lower(m) = Lower(Val(lastCall.cur))

\* C8: a rotation that has started is left only by the interruption, which
\* prints the stop message and returns.
C8_OnlyInterruptStops ==
    (branch = "rotate" /\ pc \notin {"rot_tick", "rot_sleep"}) =>
        (pc = "done" /\ out = "stopped")

BothDone == \A p \in Procs : rpc[p] = "done"
HasRecord(p) ==
    /\ file.state = "ok"
    /\ rjob[p].iface \in DOMAIN file.data
    /\ file.data[rjob[p].iface] = rdata[p][rjob[p].iface]

\* C9: when both concurrent backups have reported success, the file is the
\* whole mapping of the process that wrote last: it holds that process's
\* record, the records of the interfaces neither process backs up are as
\* found, and nothing of the other process is in it but what the last writer
\* had loaded.  The lost update is the witness.
C9_LastWriterWins ==
    BothDone =>
        /\ lastWriter \in Procs
        /\ file = FileOf(rdata[lastWriter])
        /\ HasRecord(lastWriter)
        /\ \A j \in DOMAIN file0.data \ {rjob[p].iface : p \in Procs} :
              j \in DOMAIN file.data /\ file.data[j] = file0.data[j]

\* C9 witness: both backups reported success, on different interfaces, and
\* the file holds the record of one of them only
C9_LostUpdate ==
    /\ BothDone
    /\ rjob[1].iface # rjob[2].iface
    /\ \E p, q \in Procs : HasRecord(p) /\ ~HasRecord(q)
    /\ Cardinality(DOMAIN file.data) = 1

\* C10: with an interval on the command line (0 included) and no restore, a
\* run that gets past validation and discovery starts the rotator and makes
\* no one-shot change; the default action is taken only when no flag was given.
C10_IntervalStartsRotator ==
    /\ (~IsNone(argv.interval) /\ ~argv.restore /\ branch # "") => branch = "rotate"
    /\ defaulted =>
          /\ IsNone(argv.mac)
          /\ ~argv.random
          /\ ~argv.restore
          /\ IsNone(argv.interval)

=============================================================================
